---------------------------- MODULE Spec2Model ----------------------------
(***************************************************************************)
(* DeutschLernmaster: the quiz engine of the vocabulary trainer.           *)
(*                                                                         *)
(* The model follows client/src/components/test-session.tsx (TestSession:  *)
(* word source selection, question generation, answer collection and      *)
(* scoring) and the TestTab component that configures and mounts it.       *)
(* Further sections follow the server (routes.ts, storage.ts), the         *)
(* favorite dialog of WordListTab and the flashcards of WordCardTab.       *)
(*                                                                         *)
(* JavaScript strings are sequences of one-character strings, so that      *)
(* toLowerCase, trim, template literals, Number.toString and parseInt are  *)
(* computed character by character.  null is the value Null.               *)
(***************************************************************************)
EXTENDS Integers, Sequences, FiniteSets, Bags, TLC

(***************************************************************************)
(* Bounds of the model.                                                    *)
(***************************************************************************)
\* number of words held by the word store
MaxWords == 3
\* number of answer edits followed within one session
MaxAnswers == 2

(***************************************************************************)
(* Strings.                                                                *)
(***************************************************************************)
Null == <<"null-value">>

UpperChars == <<"A","B","C","D","E","F","G","H","I","J","K","L","M",
                "N","O","P","Q","R","S","T","U","V","W","X","Y","Z">>

LowerChars == <<"a","b","c","d","e","f","g","h","i","j","k","l","m",
                "n","o","p","q","r","s","t","u","v","w","x","y","z">>

Digits == <<"0","1","2","3","4","5","6","7","8","9">>

\* the lower case letter of each upper case letter
UpperToLower ==
    [c \in {UpperChars[i] : i \in 1..Len(UpperChars)} |->
        LowerChars[CHOOSE i \in 1..Len(UpperChars) : UpperChars[i] = c]]

\* the upper case letter of each lower case letter
LowerToUpper ==
    [c \in {LowerChars[i] : i \in 1..Len(LowerChars)} |->
        UpperChars[CHOOSE i \in 1..Len(LowerChars) : LowerChars[i] = c]]

\* String.prototype.toLowerCase, one character
ToLowerChar(c) == IF c \in DOMAIN UpperToLower THEN UpperToLower[c] ELSE c

\* String.prototype.toUpperCase, one character
ToUpperChar(c) == IF c \in DOMAIN LowerToUpper THEN LowerToUpper[c] ELSE c

toLowerCase(s) == [i \in 1..Len(s) |-> ToLowerChar(s[i])]

toUpperCase(s) == [i \in 1..Len(s) |-> ToUpperChar(s[i])]

\* String.prototype.trim: the white space at both ends is removed
trim(s) ==
    IF s = << >> \/ (s[1] # " " /\ s[Len(s)] # " ") THEN s
    ELSE LET inner == {i \in 1..Len(s) : s[i] # " "}
         IN  IF inner = {} THEN << >>
             ELSE LET first == CHOOSE i \in inner : \A j \in inner : i <= j
                      last  == CHOOSE i \in inner : \A j \in inner : j <= i
                  IN  SubSeq(s, first, last)

\* a value in a boolean context: null and "" are falsy
Truthy(s) == s # Null /\ s # << >>

\* a value inside a template literal: `${null}` is "null"
Str(s) == IF s = Null THEN <<"n","u","l","l">> ELSE s

\* x || ""
OrEmpty(s) == IF Truthy(s) THEN s ELSE << >>

RECURSIVE NumToString(_)
\* Number.prototype.toString of an integer
NumToString(n) ==
    IF n < 0 THEN <<"-">> \o NumToString(0 - n)
    ELSE IF n < 10 THEN <<Digits[n + 1]>>
    ELSE NumToString(n \div 10) \o <<Digits[(n % 10) + 1]>>

DigitValue(c) == (CHOOSE i \in 1..Len(Digits) : Digits[i] = c) - 1

IsDigit(c) == \E i \in 1..Len(Digits) : Digits[i] = c

RECURSIVE ParseDigits(_, _)
\* the value of the longest prefix of digits of s, continuing from acc
ParseDigits(s, acc) ==
    IF s = << >> \/ ~IsDigit(Head(s)) THEN acc
    ELSE ParseDigits(Tail(s), acc * 10 + DigitValue(Head(s)))

\* parseInt of the text of a number input: an optional sign, then digits
parseInt(s) ==
    IF s # << >> /\ Head(s) = "-" THEN 0 - ParseDigits(Tail(s), 0)
    ELSE ParseDigits(s, 0)

Min(a, b) == IF a < b THEN a ELSE b

Max(a, b) == IF a < b THEN b ELSE a

\* Array.prototype.slice(0, end): a negative end counts from the end
Slice(arr, end) ==
    LET e == IF end < 0 THEN Max(Len(arr) + end, 0) ELSE Min(end, Len(arr))
    IN  SubSeq(arr, 1, e)

\* the bag of the elements of an array
RECURSIVE BagOf(_)
BagOf(arr) ==
    IF arr = << >> THEN EmptyBag
    ELSE SetToBag({Head(arr)}) (+) BagOf(Tail(arr))

(***************************************************************************)
(* The word store (shared/schema.ts: words, favoriteLists) as the client   *)
(* sees it through its queries.                                            *)
(***************************************************************************)
Word(id, article, german, plural, turkish, category, isFavorite, wo, wohin, woher) ==
    [id |-> id, article |-> article, german |-> german, plural |-> plural,
     turkish |-> turkish, category |-> category, isFavorite |-> isFavorite,
     wo |-> wo, wohin |-> wohin, woher |-> woher]

\* the rows of the words table, in id order
WordTable ==
    << Word(1, <<"d","a","s">>, <<"A","u","t","o">>, <<"A","u","t","o","s">>,
            <<"a","r","a","b","a">>, <<"E","v">>, TRUE, Null, Null, Null),
       Word(2, <<"d","e","r">>, <<"W","a","g","e","n">>, <<"W","a","g","e","n">>,
            <<"a","r","a","b","a">>, <<"e","v">>, FALSE, << >>, << >>, << >>),
       Word(3, Null, <<"H","a","u","s">>, Null,
            <<"e","v">>, <<"E","v">>, TRUE, <<"z","u"," ","H","a","u","s","e">>,
            <<"h","e","i","m">>, <<"v","o","n"," ","d","a">>),
       Word(4, <<"d","i","e">>, <<"K","a","t","z","e">>, <<"K","a","t","z","e","n">>,
            <<"k","e","d","i">>, <<"T","i","e","r">>, TRUE, <<"z","u"," ","H","a","u","s","e">>,
            Null, <<"v","o","n"," ","d","a">>),
       Word(5, <<"d","e","r">>, <<"H","u","n","d">>, <<"H","u","n","d","e">>,
            <<"k","o","p","e","k">>, <<"T","i","e","r">>, FALSE, <<"i","m"," ","H","o","f">>,
            <<"h","e","i","m">>, Null) >>

\* GET /api/words
Words == SubSeq(WordTable, 1, Min(MaxWords, Len(WordTable)))

\* the rows of the categories table
StoredCategories == {<<"B","o","s">>}

\* GET /api/categories: the categories of the words and of the categories table
getCategories == {Words[i].category : i \in 1..Len(Words)} \cup StoredCategories

\* GET /api/favorites: the words flagged isFavorite
getFavoriteWords == SelectSeq(Words, LAMBDA w : w.isFavorite)

\* add-to-list stores a word id as wordId.toString()
addToList(list, wordId) ==
    [list EXCEPT !.wordIds = Append(list.wordIds, NumToString(wordId))]

\* GET /api/favorite-lists: list 1 got words 1 and 3 through add-to-list,
\* list 2 is still as created (wordIds: [])
FavoriteLists ==
    << addToList(addToList([id |-> 1, name |-> "Liste A", wordIds |-> << >>], 1), 3),
       [id |-> 2, name |-> "Liste B", wordIds |-> << >>] >>

(***************************************************************************)
(* JavaScript values of different types, for Array.prototype.includes.     *)
(***************************************************************************)
JsNumber(n) == [t |-> "number", n |-> n, s |-> << >>]

JsString(s) == [t |-> "string", n |-> 0, s |-> s]

\* SameValueZero: values of different types are never the same
SameValueZero(a, b) == a.t = b.t /\ a.n = b.n /\ a.s = b.s

\* wordIds.includes(x), wordIds an array of strings
includes(wordIds, x) ==
    \E i \in 1..Len(wordIds) : SameValueZero(JsString(wordIds[i]), x)

(***************************************************************************)
(* The state: TestTab's configuration, the query data, and the state of    *)
(* the mounted TestSession.                                                *)
(***************************************************************************)
VARIABLES
    selectedTestMode,      \* TestTab: the quiz mode
    questionCount,         \* TestTab: the preset count
    customCount,           \* TestTab: the text of the custom count input
    testType,              \* TestTab: multiple, fill or mixed
    testSource,            \* TestTab: wordlist, category or favorites
    selectedCategory,      \* TestTab: the empty string when none is selected
    selectedFavoriteList,  \* TestTab: "", "all" or the id of a list as text
    isTestActive,          \* TestTab: TestSession is mounted
    allWords,              \* query data of /api/words
    favoriteLists,         \* query data of /api/favorite-lists
    questions,             \* TestSession: the generated questions
    selectedWords,         \* generateQuestions: the words sampled for the questions
    userAnswers,           \* TestSession: question index -> answer text
    showResult,            \* TestSession: the result view is shown
    isTestStarted,         \* TestSession
    effectError,           \* the question generation effect threw
    testResults,           \* the summaries handed to POST /api/test-results
    answerEdits,           \* number of answer edits of the session so far
    db,                    \* the database: tables words, categories, favorite_lists
    inflight,              \* the requests the server has received, answered or not
    wordListTab,           \* WordListTab: its state and its query data
    wordCardTab            \* WordCardTab: its state and its query data

tabVars == <<selectedTestMode, questionCount, customCount, testType, testSource,
             selectedCategory, selectedFavoriteList>>

dataVars == <<allWords, favoriteLists>>

sessionVars == <<questions, selectedWords, userAnswers, showResult, isTestStarted,
                 effectError, answerEdits>>

\* the server and the other tabs of the home page
appVars == <<db, inflight, wordListTab, wordCardTab>>

\* the quiz: TestTab and TestSession
quizVars == <<tabVars, isTestActive, dataVars, sessionVars, testResults>>

vars == <<tabVars, isTestActive, dataVars, sessionVars, testResults, appVars>>

TestModes == {"artikel", "plural", "tr-de", "de-tr", "sentence", "wo", "wohin", "woher"}

TestTypes == {"multiple", "fill", "mixed"}

TestSources == {"wordlist", "category", "favorites"}

\* the preset question counts of TestTab
questionCounts == <<5, 10, 15, 20>>

\* the preset the user clicks (10, the preset selected initially)
PresetClicks == {questionCounts[2]}

\* the texts the user types into the custom count input
CustomCounts == {<< >>, <<"0">>, <<"2">>, <<"-","1">>}

All == <<"a","l","l">>

\* empty tables, no request received, the other tabs not yet used
AppInit ==
    /\ db = [words |-> << >>, nextId |-> 1, categories |-> << >>,
             favoriteLists |-> << >>]
    /\ inflight = << >>
    /\ wordListTab = [selectedWordForFavorite |-> {},
                      isAddToFavoriteDialogOpen |-> FALSE,
                      allWords |-> << >>, favoriteLists |-> << >>,
                      invalidated |-> {}]
    /\ wordCardTab = [cardType |-> "turkish", searchTerm |-> << >>,
                      selectedCategory |-> All, favoriteFilter |-> All,
                      currentCardIndex |-> 0, isFlipped |-> FALSE,
                      allWords |-> << >>, favoriteWords |-> << >>]

\* the initial state of a mounted TestSession (its useState calls)
SessionInit ==
    /\ questions = << >>
    /\ selectedWords = << >>
    /\ userAnswers = << >>
    /\ showResult = FALSE
    /\ isTestStarted = FALSE
    /\ effectError = FALSE
    /\ answerEdits = 0

\* a TestSession is mounted with fresh state
SessionReset ==
    /\ questions' = << >>
    /\ selectedWords' = << >>
    /\ userAnswers' = << >>
    /\ showResult' = FALSE
    /\ isTestStarted' = FALSE
    /\ effectError' = FALSE
    /\ answerEdits' = 0

Init ==
    /\ selectedTestMode = "artikel"
    /\ questionCount = 10
    /\ customCount = << >>
    /\ testType = "multiple"
    /\ testSource = "wordlist"
    /\ selectedCategory = << >>
    /\ selectedFavoriteList = << >>
    /\ isTestActive = FALSE
    /\ allWords = Words
    /\ favoriteLists = FavoriteLists
    /\ testResults = << >>
    /\ AppInit
    /\ SessionInit

(***************************************************************************)
(* TestTab: the configuration handlers, shown while no test is active.     *)
(***************************************************************************)
SetSelectedTestMode(m) ==
    /\ ~isTestActive
    /\ selectedTestMode' = m
    /\ UNCHANGED <<questionCount, customCount, testType, testSource, selectedCategory,
                   selectedFavoriteList, isTestActive, dataVars, sessionVars, testResults, appVars>>

\* a preset button: the custom count is cleared
SetQuestionCount(count) ==
    /\ ~isTestActive
    /\ questionCount' = count
    /\ customCount' = << >>
    /\ UNCHANGED <<selectedTestMode, testType, testSource, selectedCategory,
                   selectedFavoriteList, isTestActive, dataVars, sessionVars, testResults, appVars>>

SetCustomCount(text) ==
    /\ ~isTestActive
    /\ customCount' = text
    /\ UNCHANGED <<selectedTestMode, questionCount, testType, testSource, selectedCategory,
                   selectedFavoriteList, isTestActive, dataVars, sessionVars, testResults, appVars>>

SetTestType(t) ==
    /\ ~isTestActive
    /\ testType' = t
    /\ UNCHANGED <<selectedTestMode, questionCount, customCount, testSource,
                   selectedCategory, selectedFavoriteList, isTestActive, dataVars,
                   sessionVars, testResults, appVars>>

\* the source select: both selectors are cleared
SetTestSource(src) ==
    /\ ~isTestActive
    /\ testSource' = src
    /\ selectedCategory' = << >>
    /\ selectedFavoriteList' = << >>
    /\ UNCHANGED <<selectedTestMode, questionCount, customCount, testType, isTestActive,
                   dataVars, sessionVars, testResults, appVars>>

\* the category select, shown for source category: one item per category
SetSelectedCategory(c) ==
    /\ ~isTestActive
    /\ testSource = "category"
    /\ c \in getCategories
    /\ selectedCategory' = c
    /\ UNCHANGED <<selectedTestMode, questionCount, customCount, testType, testSource,
                   selectedFavoriteList, isTestActive, dataVars, sessionVars, testResults, appVars>>

\* the items of the favorite list select: "all" and list.id.toString() per list
FavoriteListItems ==
    {All} \cup {NumToString(favoriteLists[i].id) : i \in 1..Len(favoriteLists)}

SetSelectedFavoriteList(v) ==
    /\ ~isTestActive
    /\ testSource = "favorites"
    /\ v \in FavoriteListItems
    /\ selectedFavoriteList' = v
    /\ UNCHANGED <<selectedTestMode, questionCount, customCount, testType, testSource,
                   selectedCategory, isTestActive, dataVars, sessionVars, testResults, appVars>>

\* mutant of StartDisabled: the favorite list selector is not tested
StartDisabledCategoryOnly == testSource = "category" /\ selectedCategory = << >>

\* the start button is disabled while a required selector is missing
StartDisabled ==
    \/ (testSource = "category" /\ selectedCategory = << >>)
    \/ (testSource = "favorites" /\ selectedFavoriteList = << >>)

handleStartTest ==
    /\ ~isTestActive
    /\ ~StartDisabled
    /\ isTestActive' = TRUE
    /\ SessionReset
    /\ UNCHANGED <<tabVars, dataVars, testResults, appVars>>

\* onExit of the session: TestSession is unmounted
handleExitTest ==
    /\ isTestActive
    /\ isTestActive' = FALSE
    /\ SessionReset
    /\ UNCHANGED <<tabVars, dataVars, testResults, appVars>>

\* the questionCount prop of TestSession
finalCount == IF customCount # << >> THEN parseInt(customCount) ELSE questionCount

(***************************************************************************)
(* TestSession: the word source selector.                                  *)
(***************************************************************************)
\* query data of /api/favorites (enabled for source favorites, list "all")
favoriteWords == getFavoriteWords

\* favoriteLists.find(list => list.id.toString() === selectedFavoriteList)
FindSelectedList ==
    LET hits == {i \in 1..Len(favoriteLists) :
                    NumToString(favoriteLists[i].id) = selectedFavoriteList}
    IN  IF hits = {} THEN << >>
        ELSE <<favoriteLists[CHOOSE i \in hits : \A j \in hits : i <= j]>>

\* the member test of the favorite list filter: wordIds.includes(word.id),
\* word.id a number
ListHasWord(list, word) == includes(list.wordIds, JsNumber(word.id))

\* mutant of CategoryMatches: the comparison ignores case
CategoryMatchesIgnoreCase(word) ==
    toLowerCase(word.category) = toLowerCase(selectedCategory)

\* word.category === selectedCategory
CategoryMatches(word) == word.category = selectedCategory

getFilteredWords ==
    IF testSource = "wordlist" THEN allWords
    ELSE IF testSource = "category" /\ selectedCategory # << >>
    THEN SelectSeq(allWords, CategoryMatches)
    ELSE IF testSource = "favorites"
    THEN IF selectedFavoriteList = All THEN favoriteWords
         ELSE IF selectedFavoriteList # << >> /\ Len(favoriteLists) > 0
         THEN IF FindSelectedList # << >>
              THEN SelectSeq(allWords, LAMBDA w : ListHasWord(FindSelectedList[1], w))
              ELSE << >>
         ELSE << >>
    ELSE << >>

filteredWords == getFilteredWords

(***************************************************************************)
(* TestSession: the question generator.  The order of an options array     *)
(* after options.sort(() => Math.random() - 0.5) is arbitrary: the array   *)
(* is kept as the bag of its entries.                                      *)
(***************************************************************************)
\* options of a fill question: undefined
Undefined == [x \in {<<"undefined-value">>} |-> 0]

Articles == <<<<"d","e","r">>, <<"d","i","e">>, <<"d","a","s">>>>

\* `${word.article} ${word.german}`
ArticleGerman(w) == Str(w.article) \o <<" ">> \o w.german

\* the answer field a mode reads from a word
ModeField(m, w) ==
    CASE m = "plural" -> w.plural
      [] m = "wo"     -> w.wo
      [] m = "wohin"  -> w.wohin
      [] m = "woher"  -> w.woher
      [] m = "tr-de"  -> ArticleGerman(w)
      [] m = "de-tr"  -> w.turkish
      [] OTHER        -> w.german

\* the filter of the peers whose value becomes a distractor
PeerFilter(m, word, w) ==
    IF m \in {"plural", "wo", "wohin", "woher"}
    THEN w.id # word.id /\ Truthy(ModeField(m, w))
    ELSE w.id # word.id

\* mutant of Distractors: the peers' values are not cut to three
DistractorsUncut(m, word, pool) ==
    LET peers == SelectSeq(pool, LAMBDA w : PeerFilter(m, word, w))
    IN  [i \in 1..Len(peers) |-> ModeField(m, peers[i])]

\* allWords.filter(...).map(...).slice(0, 3)
Distractors(m, word, pool) ==
    LET peers == SelectSeq(pool, LAMBDA w : PeerFilter(m, word, w))
    IN  Slice([i \in 1..Len(peers) |-> ModeField(m, peers[i])], 3)

\* the correctAnswer of a question
CorrectAnswer(m, word) ==
    CASE m = "artikel" -> OrEmpty(word.article)
      [] m \in {"plural", "wo", "wohin", "woher"} -> OrEmpty(ModeField(m, word))
      [] OTHER -> ModeField(m, word)

\* mutant of Options: the correct article is not filtered out of the three
\* articles before it is pushed
OptionsUnfiltered(m, word, pool) ==
    CASE m = "artikel" -> Append(Articles, CorrectAnswer(m, word))
      [] m \in {"plural", "tr-de", "de-tr", "wo", "wohin", "woher"} ->
            Append(Distractors(m, word, pool), CorrectAnswer(m, word))
      [] OTHER -> << >>

\* the options array built for a multiple choice question
Options(m, word, pool) ==
    CASE m = "artikel" ->
            Append(SelectSeq(Articles, LAMBDA a : a # CorrectAnswer(m, word)),
                   CorrectAnswer(m, word))
      [] m \in {"plural", "tr-de", "de-tr", "wo", "wohin", "woher"} ->
            Append(Distractors(m, word, pool), CorrectAnswer(m, word))
      [] OTHER -> << >>

\* the prompt: its template and the text put into it
Question(m, word) ==
    CASE m = "artikel" -> [template |-> "artikeli nedir?", text |-> word.german]
      [] m = "plural"  -> [template |-> "cogulu nedir?", text |-> ArticleGerman(word)]
      [] m = "tr-de"   -> [template |-> "Almancasi nedir?", text |-> word.turkish]
      [] m = "de-tr"   -> [template |-> "Turkcesi nedir?", text |-> ArticleGerman(word)]
      [] m = "wo"      -> [template |-> "WO? cevabi nedir?", text |-> ArticleGerman(word)]
      [] m = "wohin"   -> [template |-> "WOHIN? cevabi nedir?", text |-> ArticleGerman(word)]
      [] m = "woher"   -> [template |-> "WOHER? cevabi nedir?", text |-> ArticleGerman(word)]
      [] OTHER         -> [template |-> "Almancasi nedir?", text |-> word.turkish]

generateQuestionForWord(word, index, type, pool) ==
    [id            |-> index,
     question      |-> Question(selectedTestMode, word),
     correctAnswer |-> CorrectAnswer(selectedTestMode, word),
     options       |-> IF type = "multiple"
                       THEN BagOf(Options(selectedTestMode, word, pool))
                       ELSE Undefined,
     type          |-> type]

(***************************************************************************)
(* TestSession: question generation, answers and scoring.                  *)
(***************************************************************************)
\* the orders [...sourceWords].sort(() => Math.random() - 0.5) can produce
ShuffleOrders(n) ==
    {p \in [1..n -> 1..n] : \A i, j \in 1..n : i # j => p[i] # p[j]}

\* mutant of QuestionTypes: the coin is flipped for every test type
QuestionTypesCoinFlip == {"multiple", "fill"}

\* the type of one question: a coin flip per question for mixed
QuestionTypes == IF testType = "mixed" THEN {"multiple", "fill"} ELSE {testType}

\* mutant of SelectWords: the sample is not cut to the requested count
SelectWordsUncut(shuffled, count) == shuffled

\* shuffled.slice(0, Math.min(questionCount, sourceWords.length))
SelectWords(shuffled, count) == Slice(shuffled, Min(count, Len(shuffled)))

\* mutant of EffectCondition: the effect does not test questions.length
EffectConditionAnyQuestions == Len(filteredWords) > 0

\* the condition of the effect on [filteredWords]
EffectCondition == Len(filteredWords) > 0 /\ Len(questions) = 0

\* generateQuestions, called by the effect on [filteredWords].  The setters
\* called after setQuestions (setCurrentQuestionIndex, ...) are not declared
\* in the component: the call throws, and neither the rest of generateQuestions
\* nor setIsTestStarted(true) of the effect is executed.
generateQuestions ==
    /\ isTestActive
    /\ EffectCondition
    /\ \E p \in ShuffleOrders(Len(filteredWords)) :
          LET sourceWords == filteredWords
              shuffled    == [i \in 1..Len(sourceWords) |-> sourceWords[p[i]]]
              selected    == SelectWords(shuffled, finalCount)
          IN  \E types \in [1..Len(selected) -> QuestionTypes] :
                 /\ questions' = [i \in 1..Len(selected) |->
                        generateQuestionForWord(selected[i], i - 1, types[i], sourceWords)]
                 /\ selectedWords' = selected
    /\ effectError' = TRUE
    /\ UNCHANGED <<tabVars, isTestActive, dataVars, userAnswers, showResult,
                   isTestStarted, answerEdits, testResults, appVars>>

\* mutant of TestViewShown: the test view is rendered without questions too
TestViewShownWithoutQuestions == isTestActive /\ ~showResult

\* mutant of TestViewShown: the answer controls stay after the result is shown
TestViewShownWithResult == isTestActive /\ Len(questions) > 0

\* the test view is rendered: there are questions and no result is shown
TestViewShown == isTestActive /\ Len(questions) > 0 /\ ~showResult

\* the texts typed into the input of a fill question
FillTexts(q) ==
    {q.correctAnswer, <<" ">> \o toUpperCase(q.correctAnswer) \o <<" ">>, <<"x">>}

\* the values the control of question q can hand to handleAnswerChange
AnswerInputs(q) ==
    IF q.type = "multiple" THEN BagToSet(q.options) ELSE FillTexts(q)

\* mutant of handleAnswerChange: the previous answers are not spread into the
\* new object
handleAnswerChangeDroppingOthers(questionIndex, answer) ==
    /\ TestViewShown
    /\ answerEdits < MaxAnswers
    /\ userAnswers' = [j \in {questionIndex} |-> answer]
    /\ answerEdits' = answerEdits + 1
    /\ UNCHANGED <<tabVars, isTestActive, dataVars, questions, selectedWords, showResult,
                   isTestStarted, effectError, testResults, appVars>>

\* setUserAnswers(prev => ({...prev, [questionIndex]: answer}))
handleAnswerChange(questionIndex, answer) ==
    /\ TestViewShown
    /\ answerEdits < MaxAnswers
    /\ userAnswers' = [j \in DOMAIN userAnswers \cup {questionIndex} |->
                          IF j = questionIndex THEN answer ELSE userAnswers[j]]
    /\ answerEdits' = answerEdits + 1
    /\ UNCHANGED <<tabVars, isTestActive, dataVars, questions, selectedWords, showResult,
                   isTestStarted, effectError, testResults, appVars>>

\* userAnswers[index] || ''
UserAnswer(answers, index) ==
    IF index \in DOMAIN answers THEN OrEmpty(answers[index]) ELSE << >>

\* mutant of IsCorrect: the texts are compared as they are
IsCorrectExact(qs, answers, index) ==
    UserAnswer(answers, index) = qs[index + 1].correctAnswer

\* userAnswer.toLowerCase().trim() === question.correctAnswer.toLowerCase().trim()
IsCorrect(qs, answers, index) ==
    trim(toLowerCase(UserAnswer(answers, index))) =
        trim(toLowerCase(qs[index + 1].correctAnswer))

RECURSIVE FinishLoop(_, _, _, _)
\* the forEach of finishTest from question index on: correctCount++ per match
FinishLoop(qs, answers, index, correctCount) ==
    IF index >= Len(qs) THEN correctCount
    ELSE FinishLoop(qs, answers, index + 1,
                    IF IsCorrect(qs, answers, index) THEN correctCount + 1
                    ELSE correctCount)

\* the correctCount finishTest computes
finishTestCount == FinishLoop(questions, userAnswers, 0, 0)

\* questions.filter(...).length
CorrectCount(qs, answers) ==
    Cardinality({i \in 0..(Len(qs) - 1) : IsCorrect(qs, answers, i)})

\* getCorrectCount of the result view
getCorrectCount == CorrectCount(questions, userAnswers)

\* mutant of Round: the quotient is cut off (Math.floor)
RoundDown(num, den) == num \div den

\* Math.round(x) for x = num / den >= 0: halves are rounded up
Round(num, den) == (2 * num + den) \div (2 * den)

\* the result view: Math.round((correctCount / questions.length) * 100)
ScoreOf(qs, answers) == Round(CorrectCount(qs, answers) * 100, Len(qs))

Score == ScoreOf(questions, userAnswers)

\* mutant of finishTest: the answers are cleared when the result is shown
finishTestClearingAnswers ==
    /\ isTestActive /\ Len(questions) > 0 /\ ~showResult
    /\ showResult' = TRUE
    /\ userAnswers' = << >>
    /\ UNCHANGED <<tabVars, isTestActive, dataVars, questions, selectedWords,
                   isTestStarted, effectError, answerEdits, testResults, appVars>>

\* the button "Testi Bitir" of the test view: the count computed in finishTest
\* is a local, the only state change is setShowResult(true)
finishTest ==
    /\ TestViewShown
    /\ showResult' = TRUE
    /\ UNCHANGED <<tabVars, isTestActive, dataVars, questions, selectedWords, userAnswers,
                   isTestStarted, effectError, answerEdits, testResults, appVars>>

\* TestTab.handleTestComplete, the onComplete prop of TestSession: the summary
\* handed to saveTestResultMutation.  TestSession never calls onComplete.
handleTestComplete(correctAnswers, totalQuestions) ==
    [testMode |-> selectedTestMode, testType |-> testType, testSource |-> testSource,
     questionCount |-> totalQuestions, correctAnswers |-> correctAnswers,
     totalQuestions |-> totalQuestions,
     score |-> Round(correctAnswers * 100, totalQuestions)]

Next ==
    \/ \E m \in TestModes : SetSelectedTestMode(m)
    \/ \E c \in PresetClicks : SetQuestionCount(c)
    \/ \E t \in CustomCounts : SetCustomCount(t)
    \/ \E t \in TestTypes : SetTestType(t)
    \/ \E src \in TestSources : SetTestSource(src)
    \/ \E c \in getCategories : SetSelectedCategory(c)
    \/ \E v \in FavoriteListItems : SetSelectedFavoriteList(v)
    \/ handleStartTest
    \/ handleExitTest
    \/ generateQuestions
    \/ \E i \in 0..(Len(questions) - 1) :
          \E a \in AnswerInputs(questions[i + 1]) : handleAnswerChange(i, a)
    \/ finishTest

Spec == Init /\ [][Next]_vars

(***************************************************************************)
(* The query data of the mounted session is refetched (react-query         *)
(* refetches /api/words when the window regains focus or the query is      *)
(* invalidated): the words may have changed in the meantime.               *)
(***************************************************************************)
\* GET /api/words before and after the last word was deleted
RefetchedWords == {Words, SubSeq(Words, 1, Len(Words) - 1)}

\* useQuery hands new data to the session: it renders again and the effect
\* on [filteredWords] runs (generateQuestions, when its condition holds)
Refetch(words) ==
    /\ isTestActive
    /\ words # allWords
    /\ allWords' = words
    /\ UNCHANGED <<tabVars, isTestActive, favoriteLists, sessionVars, testResults, appVars>>

\* TestTab as configured when the session is started: the default count, the
\* source wordlist or the category "Ev"
InitRefetch ==
    /\ selectedTestMode \in {"artikel", "wo"}
    /\ questionCount = 10
    /\ customCount = << >>
    /\ testType \in TestTypes
    /\ \/ testSource = "wordlist" /\ selectedCategory = << >>
       \/ testSource = "category" /\ selectedCategory = <<"E","v">>
    /\ selectedFavoriteList = << >>
    /\ isTestActive = FALSE
    /\ allWords = Words
    /\ favoriteLists = FavoriteLists
    /\ testResults = << >>
    /\ AppInit
    /\ SessionInit

NextRefetch ==
    \/ handleStartTest
    \/ handleExitTest
    \/ generateQuestions
    \/ \E i \in 0..(Len(questions) - 1) :
          \E a \in AnswerInputs(questions[i + 1]) : handleAnswerChange(i, a)
    \/ finishTest
    \/ \E words \in RefetchedWords : Refetch(words)

SpecRefetch == InitRefetch /\ [][NextRefetch]_vars

(***************************************************************************)
(* Sessions on given word lists: five words that all have an article, and  *)
(* a single word with wo "zu Hause".                                       *)
(***************************************************************************)
\* GET /api/words: the five words, Haus with its article
ArtikelWords == [WordTable EXCEPT ![3].article = <<"d","a","s">>]

\* GET /api/words: the word Haus alone
PoolOfOneWords == <<WordTable[3]>>

\* TestTab as configured for the two sessions: artikel with the custom count
\* 3 on the five words, wo with the preset count 5 on the single word
InitScenario ==
    /\ \/ /\ allWords = ArtikelWords
          /\ selectedTestMode = "artikel"
          /\ questionCount = 10
          /\ customCount = <<"3">>
       \/ /\ allWords = PoolOfOneWords
          /\ selectedTestMode = "wo"
          /\ questionCount = questionCounts[1]
          /\ customCount = << >>
    /\ testType = "multiple"
    /\ testSource = "wordlist"
    /\ selectedCategory = << >>
    /\ selectedFavoriteList = << >>
    /\ isTestActive = FALSE
    /\ favoriteLists = FavoriteLists
    /\ testResults = << >>
    /\ AppInit
    /\ SessionInit

NextScenario ==
    \/ handleStartTest
    \/ handleExitTest
    \/ generateQuestions
    \/ \E i \in 0..(Len(questions) - 1) :
          \E a \in AnswerInputs(questions[i + 1]) : handleAnswerChange(i, a)
    \/ finishTest

SpecScenario == InitScenario /\ [][NextScenario]_vars

(***************************************************************************)
(* Sessions of two multiple choice questions on the five words, in every   *)
(* mode.  The words carry the example sentence and its translation that    *)
(* the add-word form and the word editor store with a word.                *)
(***************************************************************************)
\* GET /api/words: the five words; Auto has an example sentence
GeneratorWords ==
    [i \in 1..Len(WordTable) |->
        WordTable[i] @@
        [exampleSentence    |-> IF i = 1 THEN <<"D","a","s"," ","A","u","t","o">> ELSE << >>,
         exampleTranslation |-> IF i = 1 THEN <<"B","u"," ","a","r","a","b","a">> ELSE << >>]]

\* TestTab as configured: any mode, type multiple, the custom count 2
InitGenerator ==
    /\ selectedTestMode \in TestModes
    /\ questionCount = 10
    /\ customCount = <<"2">>
    /\ testType = "multiple"
    /\ testSource = "wordlist"
    /\ selectedCategory = << >>
    /\ selectedFavoriteList = << >>
    /\ isTestActive = FALSE
    /\ allWords = GeneratorWords
    /\ favoriteLists = FavoriteLists
    /\ testResults = << >>
    /\ AppInit
    /\ SessionInit

NextGenerator ==
    \/ handleStartTest
    \/ handleExitTest
    \/ generateQuestions
    \/ \E i \in 0..(Len(questions) - 1) :
          \E a \in AnswerInputs(questions[i + 1]) : handleAnswerChange(i, a)
    \/ finishTest

SpecGenerator == InitGenerator /\ [][NextGenerator]_vars

(***************************************************************************)
(* The server: server/routes.ts in front of server/storage.ts              *)
(* (DatabaseStorage).  A handler runs up to its next await in one step and *)
(* each database statement is a step of its own, so the statements of the  *)
(* requests in flight interleave as they do on the Node event loop.        *)
(***************************************************************************)
\* number of requests the server receives
MaxRequests == 2

\* the category deleteCategory moves words to
Genel == <<"G","e","n","e","l">>

\* the columns of a word without its id (InsertWord)
InsertWord(w) == [f \in (DOMAIN w) \ {"id"} |-> w[f]]

\* bodies of POST /api/words: Auto filed under Ev, Haus filed under Genel,
\* Wagen with the empty text as category, and a body without turkish
WordBodies ==
    { InsertWord(WordTable[1]),
      [InsertWord(WordTable[3]) EXCEPT !.category = Genel],
      [InsertWord(WordTable[2]) EXCEPT !.category = << >>],
      [InsertWord(WordTable[2]) EXCEPT !.turkish = Undefined] }

\* insertWordSchema.parse accepts the body: the notNull text columns are strings
ValidInsertWord(body) ==
    \A f \in {"german", "turkish", "category"} :
        body[f] # Undefined /\ body[f] # Null

\* req.body.words of POST /api/words/bulk: arrays of entries, or no array
BulkBodies ==
    { << InsertWord(WordTable[1]),
         [InsertWord(WordTable[2]) EXCEPT !.turkish = Undefined] >>,
      << [InsertWord(WordTable[3]) EXCEPT !.category = Genel],
         InsertWord(WordTable[1]) >>,
      Undefined }

\* names sent to the category routes
CategoryNames == {WordTable[1].category, Genel, << >>, Undefined}

\* a request as received: its handler has not run yet
Request(route, body) ==
    [route |-> route, body |-> body, pc |-> "received", status |-> 0,
     i |-> 1, createdWords |-> << >>, wordCategoryNames |-> {},
     inserted |-> {}]

\* the handler has answered with the given status
Answer(req, status) == [req EXCEPT !.pc = "done", !.status = status]

\* the head of the loop of POST /api/words/bulk: the next entry is parsed
BulkLoop(req) ==
    IF req.i > Len(req.body) THEN Answer(req, 201)
    ELSE IF ~ValidInsertWord(req.body[req.i]) THEN Answer(req, 400)
    ELSE [req EXCEPT !.pc = "createWord_select"]

\* the word data of the createWord call the handler is in
wordData(req) ==
    IF req.route = "POST /api/words/bulk" THEN req.body[req.i] ELSE req.body

\* createWord has returned word to its route handler
AfterCreateWord(req, word) ==
    IF req.route = "POST /api/words/bulk"
    THEN BulkLoop([req EXCEPT !.createdWords = Append(@, word), !.i = @ + 1])
    ELSE Answer([req EXCEPT !.createdWords = <<word>>], 201)

ServerUnchanged == UNCHANGED <<quizVars, wordListTab, wordCardTab>>

\* POST /api/words arrives: the body is parsed, createWord is called
PostWord(body) ==
    /\ Len(inflight) < MaxRequests
    /\ LET req == Request("POST /api/words", body)
       IN  inflight' = Append(inflight,
               IF ValidInsertWord(body)
               THEN [req EXCEPT !.pc = "createWord_select"]
               ELSE Answer(req, 400))
    /\ UNCHANGED db
    /\ ServerUnchanged

\* POST /api/words/bulk arrives
PostWordsBulk(wordsData) ==
    /\ Len(inflight) < MaxRequests
    /\ LET req == Request("POST /api/words/bulk", wordsData)
       IN  inflight' = Append(inflight,
               IF wordsData = Undefined THEN Answer(req, 400)
               ELSE BulkLoop(req))
    /\ UNCHANGED db
    /\ ServerUnchanged

\* createWord: the select of the words with the same german returns
createWord_select(r) ==
    /\ inflight[r].pc = "createWord_select"
    /\ LET existingWord ==
               SelectSeq(db.words,
                         LAMBDA w : w.german = wordData(inflight[r]).german)
       IN  inflight' = [inflight EXCEPT ![r] =
               IF Len(existingWord) > 0
               THEN AfterCreateWord(@, existingWord[1])
               ELSE [@ EXCEPT !.pc = "createWord_insert"]]
    /\ UNCHANGED db
    /\ ServerUnchanged

\* createWord: the insert runs and returns the new row
createWord_insert(r) ==
    /\ inflight[r].pc = "createWord_insert"
    /\ LET word == [id |-> db.nextId] @@ wordData(inflight[r])
       IN  /\ db' = [db EXCEPT !.words = Append(@, word), !.nextId = @ + 1]
           /\ inflight' = [inflight EXCEPT ![r] =
                  AfterCreateWord([@ EXCEPT !.inserted = @ \cup {word.id}], word)]
    /\ ServerUnchanged

\* POST /api/categories arrives: the name is checked, getCategories is called
PostCategory(name) ==
    /\ Len(inflight) < MaxRequests
    /\ LET req == Request("POST /api/categories", name)
       IN  inflight' = Append(inflight,
               IF name = Undefined \/ ~Truthy(name) THEN Answer(req, 400)
               ELSE [req EXCEPT !.pc = "getCategories_words"])
    /\ UNCHANGED db
    /\ ServerUnchanged

\* getCategories: the select of the distinct categories of the words returns
getCategories_words(r) ==
    /\ inflight[r].pc = "getCategories_words"
    /\ inflight' = [inflight EXCEPT ![r] =
           [@ EXCEPT !.pc = "getCategories_stored",
                     !.wordCategoryNames =
                         {db.words[k].category : k \in 1..Len(db.words)}]]
    /\ UNCHANGED db
    /\ ServerUnchanged

\* the result of getCategories, as a set (the route only asks includes)
allCategories(wordCategoryNames, storedCategoryNames) ==
    wordCategoryNames \cup storedCategoryNames

\* getCategories: the select of the categories table returns, and the route
\* answers 409 or calls createCategory
getCategories_stored(r) ==
    /\ inflight[r].pc = "getCategories_stored"
    /\ LET storedCategoryNames ==
               {db.categories[k] : k \in 1..Len(db.categories)}
           categories ==
               allCategories(inflight[r].wordCategoryNames, storedCategoryNames)
       IN  inflight' = [inflight EXCEPT ![r] =
               IF inflight[r].body \in categories THEN Answer(@, 409)
               ELSE [@ EXCEPT !.pc = "createCategory_insert"]]
    /\ UNCHANGED db
    /\ ServerUnchanged

\* createCategory: the insert runs.  The definition of the categories table
\* is not part of the sources at hand: for a name the table already holds,
\* the insert either adds a second row, or fails on a unique constraint and
\* the route answers 500.
createCategory_insert(r) ==
    /\ inflight[r].pc = "createCategory_insert"
    /\ LET name == inflight[r].body
       IN  \/ /\ db' = [db EXCEPT !.categories = Append(@, name)]
              /\ inflight' = [inflight EXCEPT ![r] = Answer(@, 201)]
           \/ /\ \E k \in 1..Len(db.categories) : db.categories[k] = name
              /\ inflight' = [inflight EXCEPT ![r] = Answer(@, 500)]
              /\ UNCHANGED db
    /\ ServerUnchanged

\* DELETE /api/categories/:name arrives: deleteCategory is called
DeleteCategory(name) ==
    /\ Len(inflight) < MaxRequests
    /\ inflight' = Append(inflight,
           [Request("DELETE /api/categories/:name", name)
               EXCEPT !.pc = "deleteCategory_update"])
    /\ UNCHANGED db
    /\ ServerUnchanged

\* deleteCategory: the update moves the words of the category to "Genel"
deleteCategory_update(r) ==
    /\ inflight[r].pc = "deleteCategory_update"
    /\ db' = [db EXCEPT !.words =
                 [k \in 1..Len(@) |->
                     IF @[k].category = inflight[r].body
                     THEN [@[k] EXCEPT !.category = Genel] ELSE @[k]]]
    /\ inflight' = [inflight EXCEPT ![r] = [@ EXCEPT !.pc = "deleteCategory_delete"]]
    /\ ServerUnchanged

\* deleteCategory: the delete on the categories table runs, the route answers
deleteCategory_delete(r) ==
    /\ inflight[r].pc = "deleteCategory_delete"
    /\ db' = [db EXCEPT !.categories =
                 SelectSeq(@, LAMBDA c : c # inflight[r].body)]
    /\ inflight' = [inflight EXCEPT ![r] = Answer(@, 200)]
    /\ ServerUnchanged

NextStore ==
    \/ \E body \in WordBodies : PostWord(body)
    \/ \E wordsData \in BulkBodies : PostWordsBulk(wordsData)
    \/ \E name \in CategoryNames : PostCategory(name)
    \/ \E name \in CategoryNames \ {<< >>, Undefined} : DeleteCategory(name)
    \/ \E r \in DOMAIN inflight : createWord_select(r)
    \/ \E r \in DOMAIN inflight : createWord_insert(r)
    \/ \E r \in DOMAIN inflight : getCategories_words(r)
    \/ \E r \in DOMAIN inflight : getCategories_stored(r)
    \/ \E r \in DOMAIN inflight : createCategory_insert(r)
    \/ \E r \in DOMAIN inflight : deleteCategory_update(r)
    \/ \E r \in DOMAIN inflight : deleteCategory_delete(r)

SpecStore == Init /\ [][NextStore]_vars

(***************************************************************************)
(* WordListTab (client/src/components/word-list-tab.tsx): the favorite     *)
(* dialog and its two mutations, with the routes PUT /api/words/:id and    *)
(* PUT /api/favorite-lists/:id that serve them.  A mutation is sent by the *)
(* handler, served by the server, and settled when its onSuccess callback  *)
(* runs in the client; an invalidated query is refetched in a later step.  *)
(***************************************************************************)
\* number of mutations the word list tab sends
MaxMutations == 4

\* the words table before any word was made a favorite
ListTabWords == [k \in 1..Len(Words) |-> [Words[k] EXCEPT !.isFavorite = FALSE]]

\* the favorite_lists table: two lists as createFavoriteList leaves them
ListTabLists ==
    << [id |-> 1, name |-> "Liste A", wordIds |-> << >>],
       [id |-> 2, name |-> "Liste B", wordIds |-> << >>] >>

\* the tab is mounted and its queries have loaded
InitLists ==
    /\ selectedTestMode = "artikel"
    /\ questionCount = 10
    /\ customCount = << >>
    /\ testType = "multiple"
    /\ testSource = "wordlist"
    /\ selectedCategory = << >>
    /\ selectedFavoriteList = << >>
    /\ isTestActive = FALSE
    /\ allWords = Words
    /\ favoriteLists = FavoriteLists
    /\ testResults = << >>
    /\ SessionInit
    /\ db = [words |-> ListTabWords, nextId |-> Len(ListTabWords) + 1,
             categories |-> << >>, favoriteLists |-> ListTabLists]
    /\ inflight = << >>
    /\ wordListTab = [selectedWordForFavorite |-> {},
                      isAddToFavoriteDialogOpen |-> FALSE,
                      allWords |-> ListTabWords,
                      favoriteLists |-> ListTabLists,
                      invalidated |-> {}]
    /\ wordCardTab = [cardType |-> "turkish", searchTerm |-> << >>,
                      selectedCategory |-> All, favoriteFilter |-> All,
                      currentCardIndex |-> 0, isFlipped |-> FALSE,
                      allWords |-> << >>, favoriteWords |-> << >>]

ListTabUnchanged == UNCHANGED <<quizVars, wordCardTab>>

\* a mutation whose request was sent
Mutation(route, id, data, variables) ==
    [Request(route, [id |-> id, data |-> data, variables |-> variables])
        EXCEPT !.pc = "sent"]

\* toggleFavoriteMutation.mutate({id, isFavorite})
toggleFavoriteMutation(id, isFavorite) ==
    Mutation("PUT /api/words/:id", id, [isFavorite |-> ~isFavorite],
             [id |-> id, isFavorite |-> isFavorite])

\* addToListMutation.mutate({listId, wordId}): the new wordIds are computed
\* from the list as the favorite-lists query data of the tab holds it
addToListMutation(listId, wordId) ==
    LET list == CHOOSE l \in {wordListTab.favoriteLists[k] :
                                 k \in 1..Len(wordListTab.favoriteLists)} :
                    l.id = listId
        newWordIds == Append(list.wordIds, NumToString(wordId))
    IN  Mutation("PUT /api/favorite-lists/:id", listId,
                 [name |-> list.name, wordIds |-> newWordIds],
                 [listId |-> listId, wordId |-> wordId])

\* toggleFavoriteMutation.isPending: the last toggle sent is not settled
toggleFavoriteIsPending ==
    LET sent == {r \in DOMAIN inflight : inflight[r].route = "PUT /api/words/:id"}
    IN  sent # {} /\
        inflight[CHOOSE r \in sent : \A q \in sent : q <= r].pc # "done"

\* the word the dialog is about (the state holds it as the set of the
\* word, and null as the empty set)
selectedWordForFavorite ==
    CHOOSE word \in wordListTab.selectedWordForFavorite : TRUE

\* the heart button of a word of the list: disabled while a toggle is
\* pending, and out of reach under the open (modal) dialog
handleToggleFavorite(word) ==
    /\ ~toggleFavoriteIsPending
    /\ ~wordListTab.isAddToFavoriteDialogOpen
    /\ IF ~word.isFavorite
       THEN /\ wordListTab' = [wordListTab EXCEPT
                                  !.selectedWordForFavorite = {word},
                                  !.isAddToFavoriteDialogOpen = TRUE]
            /\ UNCHANGED inflight
       ELSE /\ Len(inflight) < MaxMutations
            /\ inflight' = Append(inflight,
                                  toggleFavoriteMutation(word.id, word.isFavorite))
            /\ UNCHANGED wordListTab
    /\ UNCHANGED db
    /\ ListTabUnchanged

\* the dialog is dismissed (onOpenChange)
setIsAddToFavoriteDialogOpen(open) ==
    /\ wordListTab.isAddToFavoriteDialogOpen
    /\ wordListTab' = [wordListTab EXCEPT !.isAddToFavoriteDialogOpen = open]
    /\ UNCHANGED <<db, inflight>>
    /\ ListTabUnchanged

\* the dialog's button for the general favorites
handleAddToGeneralFavorites ==
    /\ wordListTab.isAddToFavoriteDialogOpen
    /\ IF wordListTab.selectedWordForFavorite # {}
       THEN /\ Len(inflight) < MaxMutations
            /\ inflight' = Append(inflight,
                   toggleFavoriteMutation(selectedWordForFavorite.id,
                                          selectedWordForFavorite.isFavorite))
            /\ wordListTab' = [wordListTab EXCEPT
                                  !.isAddToFavoriteDialogOpen = FALSE,
                                  !.selectedWordForFavorite = {}]
       ELSE UNCHANGED <<inflight, wordListTab>>
    /\ UNCHANGED db
    /\ ListTabUnchanged

\* the dialog's button of a favorite list
handleAddToSpecificList(listId) ==
    /\ wordListTab.isAddToFavoriteDialogOpen
    /\ \E k \in 1..Len(wordListTab.favoriteLists) :
           wordListTab.favoriteLists[k].id = listId
    /\ IF wordListTab.selectedWordForFavorite # {}
       THEN /\ Len(inflight) + 2 <= MaxMutations
            /\ inflight' = inflight \o
                   << toggleFavoriteMutation(selectedWordForFavorite.id,
                                             selectedWordForFavorite.isFavorite),
                      addToListMutation(listId, selectedWordForFavorite.id) >>
       ELSE UNCHANGED inflight
    /\ UNCHANGED <<db, wordListTab>>
    /\ ListTabUnchanged

\* PUT /api/words/:id: updateWord sets the columns of the body
updateWord(r) ==
    /\ inflight[r].route = "PUT /api/words/:id"
    /\ inflight[r].pc = "sent"
    /\ LET id == inflight[r].body.id
           found == \E k \in 1..Len(db.words) : db.words[k].id = id
       IN  /\ db' = [db EXCEPT !.words =
                        [k \in 1..Len(@) |->
                            IF @[k].id = id
                            THEN [@[k] EXCEPT !.isFavorite =
                                     inflight[r].body.data.isFavorite]
                            ELSE @[k]]]
           /\ inflight' = [inflight EXCEPT ![r] =
                  [@ EXCEPT !.pc = "answered",
                            !.status = IF found THEN 200 ELSE 404]]
    /\ UNCHANGED wordListTab
    /\ ListTabUnchanged

\* PUT /api/favorite-lists/:id: updateFavoriteList sets name and wordIds
updateFavoriteList(r) ==
    /\ inflight[r].route = "PUT /api/favorite-lists/:id"
    /\ inflight[r].pc = "sent"
    /\ LET id == inflight[r].body.id
           found == \E k \in 1..Len(db.favoriteLists) : db.favoriteLists[k].id = id
       IN  /\ db' = [db EXCEPT !.favoriteLists =
                        [k \in 1..Len(@) |->
                            IF @[k].id = id
                            THEN [@[k] EXCEPT
                                     !.name = inflight[r].body.data.name,
                                     !.wordIds = inflight[r].body.data.wordIds]
                            ELSE @[k]]]
           /\ inflight' = [inflight EXCEPT ![r] =
                  [@ EXCEPT !.pc = "answered",
                            !.status = IF found THEN 200 ELSE 404]]
    /\ UNCHANGED wordListTab
    /\ ListTabUnchanged

\* the callbacks of a mutation whose answer has arrived: onSuccess
\* invalidates the query (onError only shows a toast)
onSuccess(r) ==
    /\ inflight[r].pc = "answered"
    /\ inflight' = [inflight EXCEPT ![r] = [@ EXCEPT !.pc = "done"]]
    /\ wordListTab' =
           IF inflight[r].status # 200 THEN wordListTab
           ELSE IF inflight[r].route = "PUT /api/words/:id"
           THEN [wordListTab EXCEPT !.invalidated = @ \cup {"/api/words"}]
           ELSE [wordListTab EXCEPT
                    !.invalidated = @ \cup {"/api/favorite-lists"},
                    !.isAddToFavoriteDialogOpen = FALSE,
                    !.selectedWordForFavorite = {}]
    /\ UNCHANGED db
    /\ ListTabUnchanged

\* the refetch of an invalidated query returns the rows of its table
RefetchQuery(queryKey) ==
    /\ queryKey \in wordListTab.invalidated
    /\ wordListTab' = [wordListTab EXCEPT
           !.invalidated = @ \ {queryKey},
           !.allWords = IF queryKey = "/api/words" THEN db.words ELSE @,
           !.favoriteLists =
               IF queryKey = "/api/favorite-lists" THEN db.favoriteLists ELSE @]
    /\ UNCHANGED <<db, inflight>>
    /\ ListTabUnchanged

NextLists ==
    \/ \E k \in 1..Len(wordListTab.allWords) :
           handleToggleFavorite(wordListTab.allWords[k])
    \/ setIsAddToFavoriteDialogOpen(FALSE)
    \/ handleAddToGeneralFavorites
    \/ \E listId \in {1, 2} : handleAddToSpecificList(listId)
    \/ \E r \in DOMAIN inflight : updateWord(r)
    \/ \E r \in DOMAIN inflight : updateFavoriteList(r)
    \/ \E r \in DOMAIN inflight : onSuccess(r)
    \/ \E queryKey \in {"/api/words", "/api/favorite-lists"} : RefetchQuery(queryKey)

SpecLists == InitLists /\ [][NextLists]_vars

(***************************************************************************)
(* WordCardTab (client/src/components/word-card-tab.tsx): the flashcards.  *)
(* The keyboard handler is registered in every render; the filter controls *)
(* and the buttons are rendered only while there is a current word.        *)
(***************************************************************************)
\* String.prototype.includes
stringIncludes(s, t) ==
    \E i \in 0..(Len(s) - Len(t)) : SubSeq(s, i + 1, i + Len(t)) = t

\* the value of the "Favorites Only" item of the favorites select
FavoritesOnly == <<"t","r","u","e">>

\* filteredWords of a WordCardTab in state tab
cardFilteredWords(tab) ==
    LET source == IF tab.favoriteFilter = FavoritesOnly
                  THEN tab.favoriteWords ELSE tab.allWords
        searched ==
            IF Truthy(tab.searchTerm)
            THEN SelectSeq(source, LAMBDA word :
                     \/ stringIncludes(toLowerCase(word.german),
                                       toLowerCase(tab.searchTerm))
                     \/ stringIncludes(toLowerCase(word.turkish),
                                       toLowerCase(tab.searchTerm)))
            ELSE source
    IN  IF tab.selectedCategory # All
        THEN SelectSeq(searched, LAMBDA word : word.category = tab.selectedCategory)
        ELSE searched

\* there is a current word: filteredWords[currentCardIndex] is defined
hasCurrentWord ==
    wordCardTab.currentCardIndex < Len(cardFilteredWords(wordCardTab))

CardTabUnchanged == UNCHANGED <<quizVars, db, inflight, wordListTab>>

\* the texts typed into the search input
SearchTerms == {<< >>, <<"A","R">>}

\* the items of the category select: "all" and the result of getCategories
CardCategories == {All} \cup getCategories

\* the data a refetch of /api/words can return: the table is unchanged, or
\* words were added or deleted since
CardWordLists == {SubSeq(Words, 1, n) : n \in 0..Len(Words)}

\* the effect on [searchTerm, selectedCategory, favoriteFilter]
ResetCard(tab) == [tab EXCEPT !.currentCardIndex = 0, !.isFlipped = FALSE]

\* the card type radio group
setCardType(value) ==
    /\ hasCurrentWord
    /\ wordCardTab' = [wordCardTab EXCEPT !.cardType = value]
    /\ CardTabUnchanged

\* the search input changes, the effect resets the card
setSearchTerm(value) ==
    /\ hasCurrentWord
    /\ value # wordCardTab.searchTerm
    /\ wordCardTab' = ResetCard([wordCardTab EXCEPT !.searchTerm = value])
    /\ CardTabUnchanged

\* the category select changes, the effect resets the card
setCardSelectedCategory(value) ==
    /\ hasCurrentWord
    /\ value # wordCardTab.selectedCategory
    /\ wordCardTab' = ResetCard([wordCardTab EXCEPT !.selectedCategory = value])
    /\ CardTabUnchanged

\* the favorites select changes, the effect resets the card
setFavoriteFilter(value) ==
    /\ hasCurrentWord
    /\ value # wordCardTab.favoriteFilter
    /\ wordCardTab' = ResetCard([wordCardTab EXCEPT !.favoriteFilter = value])
    /\ CardTabUnchanged

\* a click on the card, or the space key
handleFlipCard ==
    /\ wordCardTab' = [wordCardTab EXCEPT !.isFlipped = ~@]
    /\ CardTabUnchanged

\* the state of the tab after handleNextCard
NextCard(tab) ==
    IF tab.currentCardIndex < Len(cardFilteredWords(tab)) - 1
    THEN [tab EXCEPT !.currentCardIndex = @ + 1, !.isFlipped = FALSE]
    ELSE tab

\* the Next button (enabled unless the card is the last), or the right arrow key
handleNextCard ==
    /\ wordCardTab' = NextCard(wordCardTab)
    /\ CardTabUnchanged

\* the Previous button (enabled unless the card is the first), or the left
\* arrow key
handlePreviousCard ==
    /\ wordCardTab' =
           IF wordCardTab.currentCardIndex > 0
           THEN [wordCardTab EXCEPT !.currentCardIndex = @ - 1,
                                    !.isFlipped = FALSE]
           ELSE wordCardTab
    /\ CardTabUnchanged

\* the buttons "Don't Know", "Partial", "Know It" (enabled on a flipped card)
\* and the up and down arrow keys (on a flipped card)
handleCardAction(action) ==
    /\ wordCardTab.isFlipped
    /\ action \in {"incorrect", "partial", "correct"}
    /\ wordCardTab' = NextCard(wordCardTab)
    /\ CardTabUnchanged

\* the /api/words query of the tab gets (new) data
RefetchCardWords(words) ==
    /\ wordCardTab' = [wordCardTab EXCEPT !.allWords = words]
    /\ CardTabUnchanged

\* the /api/favorites query of the tab gets (new) data
RefetchFavoriteWords(words) ==
    /\ wordCardTab' = [wordCardTab EXCEPT
           !.favoriteWords = SelectSeq(words, LAMBDA w : w.isFavorite)]
    /\ CardTabUnchanged

NextCards ==
    \/ \E value \in {"turkish", "german"} : setCardType(value)
    \/ \E value \in SearchTerms : setSearchTerm(value)
    \/ \E value \in CardCategories : setCardSelectedCategory(value)
    \/ \E value \in {All, FavoritesOnly} : setFavoriteFilter(value)
    \/ handleFlipCard
    \/ handleNextCard
    \/ handlePreviousCard
    \/ \E action \in {"incorrect", "partial", "correct"} : handleCardAction(action)
    \/ \E words \in CardWordLists : RefetchCardWords(words)
    \/ \E words \in CardWordLists : RefetchFavoriteWords(words)

SpecCards == Init /\ [][NextCards]_vars

(***************************************************************************)
(* Properties.                                                             *)
(***************************************************************************)
\* question generation has run for the mounted session
Generated == isTestActive /\ effectError

\* the questions are those of pairwise distinct words of the pool
DistinctPoolWords ==
    /\ Len(selectedWords) = Len(questions)
    /\ \A i \in 1..Len(selectedWords) :
          /\ \E k \in 1..Len(filteredWords) : filteredWords[k] = selectedWords[i]
          /\ questions[i].id = i - 1
          /\ questions[i].question = Question(selectedTestMode, selectedWords[i])
          /\ questions[i].correctAnswer = CorrectAnswer(selectedTestMode, selectedWords[i])
    /\ \A i, j \in 1..Len(selectedWords) :
          i # j => selectedWords[i].id # selectedWords[j].id

C2_OptionIntegrity ==
    \A i \in 1..Len(questions) :
        questions[i].type = "multiple" =>
            CopiesIn(questions[i].correctAnswer, questions[i].options) = 1

\* no word of the pool has the answer field of the (locative) mode
NoEligibleWord ==
    /\ selectedTestMode \in {"wo", "wohin", "woher"}
    /\ \A k \in 1..Len(filteredWords) :
          ~Truthy(ModeField(selectedTestMode, filteredWords[k]))

\* C3: when no word of the source has the answer field the mode requires, the
\* started session stays empty: no questions are produced, no score is shown.
C3_EmptyPoolGuard ==
    (isTestActive /\ NoEligibleWord) => (Len(questions) = 0 /\ ~showResult)

\* C4: in modes wo, wohin, woher and sentence no question of a started session
\* has an empty correctAnswer (words lacking the field are not sampled).
C4_FieldPresence ==
    selectedTestMode \in {"wo", "wohin", "woher", "sentence"} =>
        \A i \in 1..Len(questions) : questions[i].correctAnswer # << >>

\* normalize of the specification: trim, then lowercase
Normalize(s) == toLowerCase(trim(s))

\* the stored answer of a question, the empty string when unanswered
StoredAnswer(index) ==
    IF index \in DOMAIN userAnswers THEN userAnswers[index] ELSE << >>

NormalizedMatches ==
    {i \in 0..(Len(questions) - 1) :
        Normalize(StoredAnswer(i)) = Normalize(questions[i + 1].correctAnswer)}

\* C5: on finish, correctCount is the number of questions whose stored answer
\* (empty when unanswered) equals the correctAnswer after trim and lowercase.
C5_Scoring ==
    showResult =>
        LET matches == NormalizedMatches
        IN  /\ getCorrectCount = Cardinality(matches)
            /\ finishTestCount = Cardinality(matches)

\* C5 witness: a finished session where an answer that differs from the
\* correctAnswer by case and surrounding blanks counts, and an unanswered
\* question does not
C5_Witness ==
    /\ showResult
    /\ \E i \in DOMAIN userAnswers :
          /\ userAnswers[i] # questions[i + 1].correctAnswer
          /\ i \in NormalizedMatches
    /\ \E j \in 0..(Len(questions) - 1) :
          j \notin DOMAIN userAnswers /\ j \notin NormalizedMatches

\* C6: whenever a session is finished, its summary has been handed to the
\* result recorder.
C6_ResultEmission ==
    showResult =>
        \E k \in 1..Len(testResults) :
            testResults[k] = handleTestComplete(getCorrectCount, Len(questions))

\* C7: once finished, the answers, correctCount and score of the session do
\* not change; the result view is left only by leaving the session.
C7_CompletedTerminal ==
    [][(showResult /\ isTestActive') =>
            /\ showResult'
            /\ userAnswers' = userAnswers
            /\ questions' = questions
            /\ CorrectCount(questions', userAnswers') = getCorrectCount
            /\ ScoreOf(questions', userAnswers') = Score]_vars

\* C7 witness: a finished session in which answer edits are still within the bound
C7_Witness ==
    showResult /\ answerEdits < MaxAnswers /\ Len(questions) > 1 /\ getCorrectCount > 0

\* C8: the count finish computes and the count and score evaluated again for
\* the finished session, with no answer edit in between, are the same.
C8_ScoringIdempotence ==
    [][(TestViewShown /\ showResult') =>
            /\ CorrectCount(questions', userAnswers') = finishTestCount
            /\ ScoreOf(questions', userAnswers') =
                   Round(finishTestCount * 100, Len(questions))]_vars

\* C8 witness: a finished session with a correct and a wrong answer
C8_Witness ==
    /\ showResult
    /\ getCorrectCount > 0
    /\ getCorrectCount < Len(questions)
    /\ DOMAIN userAnswers # {}

\* the words whose id, as text, is in the wordIds of the selected list
ExpectedListPool ==
    SelectSeq(allWords, LAMBDA w :
        \E i \in 1..Len(favoriteLists) :
            /\ NumToString(favoriteLists[i].id) = selectedFavoriteList
            /\ \E k \in 1..Len(favoriteLists[i].wordIds) :
                  favoriteLists[i].wordIds[k] = NumToString(w.id))

\* C9: with source favorites and a list id, the pool is exactly the words
\* whose id, written as a string, is in the wordIds of that list (empty when
\* the id resolves to no list).
C9_FavoriteListSource ==
    (testSource = "favorites" /\ selectedFavoriteList \notin {<< >>, All}) =>
        filteredWords = ExpectedListPool

\* C10: with source category and category c selected, the pool is exactly the
\* words whose category equals c, and only such words are sampled.
C10_CategorySource ==
    (testSource = "category" /\ selectedCategory # << >>) =>
        /\ filteredWords = SelectSeq(allWords, LAMBDA w : w.category = selectedCategory)
        /\ \A i \in 1..Len(selectedWords) : selectedWords[i].category = selectedCategory

\* C10 witness: a session sampled from a category whose name differs from
\* another word's category by case only
C10_Witness ==
    /\ Generated
    /\ testSource = "category"
    /\ Len(selectedWords) = 2
    /\ \E k \in 1..Len(allWords) :
          /\ allWords[k].category # selectedCategory
          /\ toLowerCase(allWords[k].category) = toLowerCase(selectedCategory)

\* the selector the source requires is missing
MissingSelector ==
    \/ (testSource = "category" /\ selectedCategory = << >>)
    \/ (testSource = "favorites" /\ selectedFavoriteList = << >>)

\* C11: while the category (source category) or the favorite list (source
\* favorites) is not selected, the pool is empty and no session is started.
C11_MissingSelectorBlocksStart ==
    MissingSelector =>
        /\ filteredWords = << >>
        /\ ~isTestActive
        /\ questions = << >>

\* C11 witness: source favorites is chosen, no list is selected, and there
\* are favorite words the session could have used
C11_Witness ==
    /\ testSource = "favorites"
    /\ selectedFavoriteList = << >>
    /\ Len(favoriteWords) > 0
    /\ ~isTestActive

\* C12: from a completed session a restart step can be taken: it leaves a
\* session mounted that is not completed and holds none of the prior answers
\* (its questions are then generated anew, within the sampling bound).
C12_Restart ==
    showResult =>
        ENABLED (Next /\ isTestActive' /\ ~showResult' /\ userAnswers' = << >>)

\* C13: once the questions of a session are generated, no step of the open
\* session changes them: not an answer edit, not finish, not a refetch of
\* the words.
C13_QuestionImmutability ==
    [][(isTestActive /\ Len(questions) > 0 /\ isTestActive') =>
            questions' = questions]_vars

\* C13 witness: the words of the open session were refetched and the pool is
\* no longer the one the questions were generated from
C13_Witness ==
    /\ isTestActive
    /\ Len(questions) > 0
    /\ allWords # Words
    /\ \E i \in 1..Len(selectedWords) :
          \A k \in 1..Len(filteredWords) : filteredWords[k] # selectedWords[i]

\* C14: for a non-empty pool question generation throws nothing: the effect
\* that generated the questions ran to its end and the session is started.
C14_NoException ==
    (isTestActive /\ Len(questions) > 0) => (~effectError /\ isTestStarted)

\* C15: the score of a completed session is correctCount / totalQuestions * 100
\* rounded to the nearest integer, with 0 <= correctCount <= totalQuestions and
\* totalQuestions >= 1: an integer in 0..100.
C15_ScoreValue ==
    showResult =>
        LET total == Len(questions)
            cc    == getCorrectCount
            score == Round(cc * 100, total)
            diff  == score * total - 100 * cc
        IN  /\ total >= 1
            /\ cc \in 0..total
            /\ score \in 0..100
            /\ 2 * diff <= total
            /\ 2 * diff > 0 - total

\* C15 witness: 2 of 3 answers are correct, the score is 67
C15_Witness ==
    showResult /\ Len(questions) = 3 /\ getCorrectCount = 2 /\ Score = 67

\* C16: no reachable state shows a result for an empty question set.
C16_NoFinishOnEmpty == showResult => Len(questions) > 0

\* C16 witness: a session was mounted whose generation produced no question
\* (requested count 0), so the finish button is not rendered
C16_Witness ==
    isTestActive /\ effectError /\ Len(questions) = 0 /\ ~showResult

\* the pool has 5 words, each with an article of der, die, das; the mode is
\* artikel, the type multiple and the count 3
ArtikelScenario ==
    /\ selectedTestMode = "artikel"
    /\ testType = "multiple"
    /\ finalCount = 3
    /\ Len(filteredWords) = 5
    /\ \A k \in 1..Len(filteredWords) :
          \E a \in 1..Len(Articles) : filteredWords[k].article = Articles[a]

\* C18: in the artikel scenario the session has exactly 3 questions, the
\* options of each are der, die, das (each once, in some order), and exactly
\* one option is the stored article of the question's word.
C18_ArtikelScenario ==
    (Generated /\ ArtikelScenario) =>
        /\ Len(questions) = 3
        /\ Len(selectedWords) = 3
        /\ \A i \in 1..Len(questions) :
              /\ questions[i].type = "multiple"
              /\ questions[i].options = SetToBag({Articles[a] : a \in 1..Len(Articles)})
              /\ CopiesIn(selectedWords[i].article, questions[i].options) = 1
              /\ questions[i].correctAnswer = selectedWords[i].article

\* C18 witness: the 3 questions of the artikel scenario were generated
C18_Witness ==
    Generated /\ ArtikelScenario /\ Len(questions) = 3

\* the pool is a single word with wo "zu Hause"; the mode is wo, the type
\* multiple and the count 5
PoolOfOneScenario ==
    /\ selectedTestMode = "wo"
    /\ testType = "multiple"
    /\ finalCount = 5
    /\ Len(filteredWords) = 1
    /\ filteredWords[1].wo = <<"z","u"," ","H","a","u","s","e">>

\* C19: in the pool-of-one scenario the session has exactly 1 question and
\* its options contain only "Zu hause".
C19_PoolOfOneCapitalized ==
    (Generated /\ PoolOfOneScenario) =>
        /\ Len(questions) = 1
        /\ questions[1].options = SetToBag({<<"Z","u"," ","h","a","u","s","e">>})

\* C20: with test type multiple every question is of type multiple, with fill
\* of type fill, with mixed of either type; a question has an options list
\* exactly when its type is multiple.
C20_TypeResolution ==
    \A i \in 1..Len(questions) :
        /\ questions[i].type \in {"multiple", "fill"}
        /\ testType = "multiple" => questions[i].type = "multiple"
        /\ testType = "fill" => questions[i].type = "fill"
        /\ (questions[i].options # Undefined) <=> (questions[i].type = "multiple")
        /\ questions[i].type = "multiple" => IsABag(questions[i].options)

\* C20 witness: a mixed session with a multiple choice question that has
\* options, followed by a fill question
C20_Witness ==
    /\ testType = "mixed"
    /\ Len(questions) > 1
    /\ questions[1].type = "multiple"
    /\ BagToSet(questions[1].options) # {}
    /\ questions[2].type = "fill"

\* the modes whose distractors are values of other words of the pool
PeerModes == {"plural", "tr-de", "de-tr", "wo", "wohin", "woher"}

\* word w has the field mode m asks for
HasModeField(m, w) ==
    CASE m = "plural" -> w.plural # Null /\ w.plural # << >>
      [] m = "wo"     -> w.wo # Null /\ w.wo # << >>
      [] m = "wohin"  -> w.wohin # Null /\ w.wohin # << >>
      [] m = "woher"  -> w.woher # Null /\ w.woher # << >>
      [] m = "tr-de"  -> w.german # << >>
      [] m = "de-tr"  -> w.turkish # << >>
      [] OTHER        -> FALSE

\* the pool words other than the word of question i that have the mode's field
EligiblePeers(i) ==
    {k \in 1..Len(filteredWords) :
        /\ filteredWords[k].id # selectedWords[i].id
        /\ HasModeField(selectedTestMode, filteredWords[k])}

AnswerValue(m, w) == IF m = "artikel" THEN w.article ELSE ModeField(m, w)

\* C22: every option of a multiple choice question other than the correct
\* answer is the non-empty answer value, in the mode, of a pool word other
\* than the word of the question.
C22_DistractorOrigin ==
    \A i \in 1..Len(questions) :
        questions[i].type = "multiple" =>
            \A o \in BagToSet(questions[i].options) \ {questions[i].correctAnswer} :
                /\ o # << >>
                /\ \E k \in 1..Len(filteredWords) :
                      /\ filteredWords[k].id # selectedWords[i].id
                      /\ AnswerValue(selectedTestMode, filteredWords[k]) = o

\* C23: in mode sentence the correctAnswer of a question is the example
\* sentence of its word when it has one and its german otherwise, the prompt
\* is built from the example translation when present and from turkish
\* otherwise, and the distractors are example sentences of other words.
C23_SentenceMode ==
    selectedTestMode = "sentence" =>
        \A i \in 1..Len(questions) :
            LET w == selectedWords[i]
            IN  /\ questions[i].correctAnswer =
                       (IF Truthy(w.exampleSentence) THEN w.exampleSentence ELSE w.german)
                /\ questions[i].question.text =
                       (IF Truthy(w.exampleTranslation) THEN w.exampleTranslation
                        ELSE w.turkish)
                /\ questions[i].type = "multiple" =>
                       \A o \in BagToSet(questions[i].options) \ {questions[i].correctAnswer} :
                           \E k \in 1..Len(filteredWords) :
                               /\ filteredWords[k].id # w.id
                               /\ filteredWords[k].exampleSentence = o

\* C24: an answer step stores a text the question's control can hand over at
\* one question index, and leaves the answers of all other indices, the
\* questions and the completed flag as they were.
C24_AnswerFrame ==
    [][answerEdits' = answerEdits + 1 =>
          /\ \E i \in 0..(Len(questions) - 1) :
                /\ DOMAIN userAnswers' = DOMAIN userAnswers \cup {i}
                /\ userAnswers'[i] \in AnswerInputs(questions[i + 1])
                /\ \A j \in DOMAIN userAnswers \ {i} : userAnswers'[j] = userAnswers[j]
          /\ questions' = questions
          /\ showResult' = showResult]_vars

\* C24 witness: two answer steps at two question indices, both answers stored
C24_Witness ==
    answerEdits = 2 /\ Cardinality(DOMAIN userAnswers) = 2 /\ ~showResult

\* the result of getCategories on the tables of d
CategoriesOf(d) ==
    allCategories({d.words[k].category : k \in 1..Len(d.words)},
                  {d.categories[k] : k \in 1..Len(d.categories)})

\* C25: the word store never holds two words with the same german, also when
\* the check and insert steps of two createWord calls for the same german
\* interleave; a createWord call that returns for a german the store holds
\* returns a stored word and leaves the store unchanged.
C25_WordUniqueness ==
    [][/\ \A k, l \in 1..Len(db'.words) :
              db'.words[k].german = db'.words[l].german => k = l
       /\ \A r \in DOMAIN inflight :
              (/\ inflight[r].pc \in {"createWord_select", "createWord_insert"}
               /\ Len(inflight'[r].createdWords) = Len(inflight[r].createdWords) + 1
               /\ \E k \in 1..Len(db.words) :
                      db.words[k].german = wordData(inflight[r]).german)
              => /\ db'.words = db.words
                 /\ \E k \in 1..Len(db.words) :
                        db.words[k] =
                            inflight'[r].createdWords[Len(inflight'[r].createdWords)]]_vars

\* C26: a POST /api/words/bulk request that was answered 400 has added no
\* word to the word store.
C26_BulkAllOrNothing ==
    \A r \in DOMAIN inflight :
        (inflight[r].route = "POST /api/words/bulk" /\ inflight[r].status = 400)
        => inflight[r].inserted = {}

\* C28: when deleteCategory(name) completes, no word has category name and
\* getCategories does not return name, for every name, "Genel" included.
C28_CategoryDeletion ==
    [][\A r \in DOMAIN inflight :
          (inflight[r].pc = "deleteCategory_delete" /\ inflight'[r].pc = "done")
          => /\ \A k \in 1..Len(db'.words) :
                    db'.words[k].category # inflight[r].body
             /\ inflight[r].body \notin CategoriesOf(db')]_vars

\* C29: POST /api/categories with a name that getCategories returns is
\* answered 409 and leaves the categories table unchanged, and the table
\* never holds a name twice, also when two requests for one name are in
\* flight together.
C29_DuplicateCategoryRejection ==
    [][/\ \A r \in DOMAIN inflight' :
              (/\ inflight'[r].route = "POST /api/categories"
               /\ inflight'[r].status # 0
               /\ (r \in DOMAIN inflight => inflight[r].status = 0)
               /\ inflight'[r].body \in CategoriesOf(db))
              => /\ inflight'[r].status = 409
                 /\ db'.categories = db.categories
       /\ \A k, l \in 1..Len(db'.categories) :
              db'.categories[k] = db'.categories[l] => k = l]_vars

\* the add-to-list mutations that succeeded: answered 200 and settled
SucceededAddToList ==
    {r \in DOMAIN inflight :
        /\ inflight[r].route = "PUT /api/favorite-lists/:id"
        /\ inflight[r].pc = "done"
        /\ inflight[r].status = 200}

\* C27: when two add-to-list operations for two different words on the same
\* favorite list have both succeeded, the wordIds of the list hold both word
\* ids, also when the second was sent before the tab's copy of the list was
\* refetched.
C27_NoLostListUpdate ==
    \A r, q \in SucceededAddToList :
        LET a == inflight[r].body.variables
            b == inflight[q].body.variables
        IN  (a.listId = b.listId /\ a.wordId # b.wordId)
            => \A k \in 1..Len(db.favoriteLists) :
                   db.favoriteLists[k].id = a.listId
                   => /\ includes(db.favoriteLists[k].wordIds,
                                  JsString(NumToString(a.wordId)))
                      /\ includes(db.favoriteLists[k].wordIds,
                                  JsString(NumToString(b.wordId)))

\* C30: in the word-card view, whenever the filtered word list is not empty,
\* 0 <= currentCardIndex < its length, after next, previous, flip, mark,
\* filter changes and refetches of the word data; with filters and data
\* unchanged the index does not pass the last card nor the first; and every
\* change of the index leaves the card unflipped.
C30_FlashcardIndexBounds ==
    [][LET before == cardFilteredWords(wordCardTab)
           after  == cardFilteredWords(wordCardTab')
       IN  /\ Len(after) > 0 =>
                  /\ 0 <= wordCardTab'.currentCardIndex
                  /\ wordCardTab'.currentCardIndex < Len(after)
           /\ (after = before /\ Len(before) > 0) =>
                  /\ wordCardTab.currentCardIndex = Len(before) - 1
                         => wordCardTab'.currentCardIndex <= Len(before) - 1
                  /\ wordCardTab.currentCardIndex = 0
                         => wordCardTab'.currentCardIndex >= 0
           /\ wordCardTab'.currentCardIndex # wordCardTab.currentCardIndex
                  => ~wordCardTab'.isFlipped]_vars

=============================================================================
